---- MODULE Spec2Model ----
(***************************************************************************)
(* Model of MyRecords.py: RowsCollection, a lazy memoizing sequence built  *)
(* on a one-shot producer of rows.                                         *)
(*                                                                         *)
(* A row is an opaque object; it is named by the position (1..N) at which  *)
(* the producer yields it, so that order, loss and duplication of rows     *)
(* are all visible.  A one-shot producer (generator or list iterator) is   *)
(* the sequence of the rows it has not delivered yet.                      *)
(***************************************************************************)
EXTENDS Integers, Sequences, FiniteSets, TLC

\* ---------------------------------------------------------------- bounds
MaxRows == 3            \* the producer yields 0..MaxRows rows
NumIters == 2           \* generator objects iter(self) alive at once
MaxCols == 2            \* a Row has 0..MaxCols columns

ResultSets == { [i \in 1..n |-> i] : n \in 0..MaxRows }
IterIds == 1..NumIters
IntKeys == (0 - 2)..(MaxRows + 1)
StartKeys == 0..MaxRows
StopKeys == (0 - 1)..(MaxRows + 1)

\* The interpreter the module runs on.  "py2": Python 2.7; "py3": Python
\* 3.0-3.6; "py37": Python 3.7 and later, where a StopIteration raised
\* inside a generator body is turned into RuntimeError (PEP 479).
Pythons == {"py2", "py3", "py37"}

NoRow == 0

VARIABLES
    python,      \* the interpreter, fixed for a run
    resultSet,   \* the rows the producer yields, in producer order
    self,        \* the RowsCollection: records, all_records, pending
    iters,       \* the generator objects made by __iter__
    sub,         \* the RowsCollection last returned by a slice
    fetched,     \* the outcomes of the last two fetch_all() calls, oldest first
    last,        \* the last call: its arguments, pre-state and outcome
    row,         \* a Row: keys, values
    asserts,     \* whether assert statements are compiled in (no python -O)
    rlast        \* the last call on the Row or on Connection.query

vars == <<python, resultSet, self, iters, sub, fetched, last, row, asserts, rlast>>

\* ------------------------------------------------------ RowsCollection
\* __init__: wrap a producer; nothing cached, pending.
RowsCollection(rows) ==
    [records |-> rows, all_records |-> <<>>, pending |-> TRUE]

\* A __next__ that returns the row without caching it.
next_nocache(c) ==
    IF c.records # <<>>
    THEN [c |-> [c EXCEPT !.records = Tail(@)],
          raised |-> FALSE, row |-> Head(c.records), reqs |-> 1]
    ELSE [c |-> [c EXCEPT !.pending = FALSE],
          raised |-> TRUE, row |-> NoRow, reqs |-> 1]

\* A __next__ that puts the new row in front of the cache.
next_prepend(c) ==
    IF c.records # <<>>
    THEN [c |-> [c EXCEPT !.records = Tail(@),
                          !.all_records = <<Head(c.records)>> \o @],
          raised |-> FALSE, row |-> Head(c.records), reqs |-> 1]
    ELSE [c |-> [c EXCEPT !.pending = FALSE],
          raised |-> TRUE, row |-> NoRow, reqs |-> 1]

\* A __next__ that clears pending as soon as it has delivered the last row.
next_eager(c) ==
    IF c.records # <<>>
    THEN [c |-> [c EXCEPT !.records = Tail(@),
                          !.all_records = Append(@, Head(c.records)),
                          !.pending = (Tail(c.records) # <<>>)],
          raised |-> FALSE, row |-> Head(c.records), reqs |-> 1]
    ELSE [c |-> [c EXCEPT !.pending = FALSE],
          raised |-> TRUE, row |-> NoRow, reqs |-> 1]

\* next / __next__: request the next row of the producer (always, whatever
\* pending is); cache and return it, or on the producer's StopIteration
\* clear pending and raise StopIteration.  reqs counts next(self.records).
next(c) ==
    IF c.records # <<>>
    THEN [c |-> [c EXCEPT !.records = Tail(@),
                          !.all_records = Append(@, Head(c.records))],
          raised |-> FALSE, row |-> Head(c.records), reqs |-> 1]
    ELSE [c |-> [c EXCEPT !.pending = FALSE],
          raised |-> TRUE, row |-> NoRow, reqs |-> 1]

\* A __len__ that counts the rows still to come as well.
len_total(c) == Len(c.all_records) + Len(c.records)

\* __len__
len(c) == Len(c.all_records)

\* A loop body that never looks in the cache.
GenStep_nocheck(c, counter) == next(c)

\* One turn of the loop body of the generator __iter__ with the given
\* counter: the cached row at counter if there is one, else self.next(),
\* whose StopIteration is raised inside the generator body.
GenStep(c, counter) ==
    IF counter < Len(c.all_records)
    THEN [c |-> c, raised |-> FALSE, row |-> c.all_records[counter + 1],
          reqs |-> 0]
    ELSE next(c)

\* list(g) for a generator g of __iter__ that is about to run its loop body
\* with the given counter: the rows yielded until self.next() raises.
RECURSIVE RunGen(_, _, _, _)
RunGen(c, counter, acc, reqs) ==
    LET s == GenStep(c, counter) IN
    IF s.raised
    THEN [c |-> s.c, list |-> acc, reqs |-> reqs + s.reqs]
    ELSE RunGen(s.c, counter + 1, Append(acc, s.row), reqs + s.reqs)

\* What the consumer of a generator sees when StopIteration is raised in
\* its body: the end of the iteration, or from Python 3.7 a RuntimeError.
GenExit(py) == IF py = "py37" THEN "RuntimeError" ELSE "StopIteration"

\* A fetch_all that returns the rows cached so far without iterating.
fetch_all_cached(c, py) ==
    [c |-> c, outcome |-> "ok", list |-> c.all_records, reqs |-> 0]

\* fetch_all: list(iter(self)).
fetch_all(c, py) ==
    LET r == RunGen(c, 0, <<>>, 0) IN
    IF GenExit(py) = "StopIteration"
    THEN [c |-> r.c, outcome |-> "ok", list |-> r.list, reqs |-> r.reqs]
    ELSE [c |-> r.c, outcome |-> GenExit(py), list |-> <<>>, reqs |-> r.reqs]

\* The loop "while bound >= len(self.all_records): self.next()" of
\* __getitem__; StopIteration of self.next() leaves the loop and the method.
RECURSIVE PullWhile(_, _, _)
PullWhile(c, bound, reqs) ==
    IF bound >= Len(c.all_records)
    THEN LET r == next(c) IN
         IF r.raised
         THEN [c |-> r.c, raised |-> TRUE, reqs |-> reqs + r.reqs]
         ELSE PullWhile(r.c, bound, reqs + r.reqs)
    ELSE [c |-> c, raised |-> FALSE, reqs |-> reqs]

\* list[key] of Python for an integer key: negative keys count from the end.
PyIndex(list, key) ==
    LET k == IF key < 0 THEN key + Len(list) ELSE key IN
    IF k >= 0 /\ k < Len(list)
    THEN [outcome |-> "ok", row |-> list[k + 1]]
    ELSE [outcome |-> "IndexError", row |-> NoRow]

\* A __getitem__ whose loop pulls one row more than the key needs.
getitem_int_over(c, key) ==
    LET p == PullWhile(c, key + 1, 0) IN
    IF p.raised
    THEN [c |-> p.c, outcome |-> "StopIteration", row |-> NoRow,
          reqs |-> p.reqs]
    ELSE [c |-> p.c, outcome |-> PyIndex(p.c.all_records, key).outcome,
          row |-> PyIndex(p.c.all_records, key).row, reqs |-> p.reqs]

\* A __getitem__ that drains the producer before it answers a negative key.
getitem_int_drainneg(c, key) ==
    LET d == IF key < 0 THEN RunGen(c, Len(c.all_records), <<>>, 0)
             ELSE [c |-> c, list |-> <<>>, reqs |-> 0]
        p == PullWhile(d.c, key, d.reqs)
    IN
    IF p.raised
    THEN [c |-> p.c, outcome |-> "StopIteration", row |-> NoRow,
          reqs |-> p.reqs]
    ELSE [c |-> p.c, outcome |-> PyIndex(p.c.all_records, key).outcome,
          row |-> PyIndex(p.c.all_records, key).row, reqs |-> p.reqs]

\* __getitem__ with an integer key.
getitem_int(c, key) ==
    LET p == PullWhile(c, key, 0) IN
    IF p.raised
    THEN [c |-> p.c, outcome |-> "StopIteration", row |-> NoRow,
          reqs |-> p.reqs]
    ELSE [c |-> p.c, outcome |-> PyIndex(p.c.all_records, key).outcome,
          row |-> PyIndex(p.c.all_records, key).row, reqs |-> p.reqs]

\* A slice bound: None or an integer.
None == [none |-> TRUE, v |-> 0]
Bound(n) == [none |-> FALSE, v |-> n]

\* Where list[start:stop] of Python puts a bound for a list of length n.
Clamp(b, n, dflt) ==
    IF b.none THEN dflt
    ELSE IF b.v < 0 THEN (IF b.v + n < 0 THEN 0 ELSE b.v + n)
    ELSE IF b.v > n THEN n ELSE b.v

\* list[start:stop] of Python (step 1): a new list, a copy of the range.
PySlice(list, key) ==
    LET lo == Clamp(key.start, Len(list), 0)
        hi == Clamp(key.stop, Len(list), Len(list))
    IN  IF lo < hi THEN SubSeq(list, lo + 1, hi) ELSE <<>>

\* "key.stop >= len(self.all_records)" with key.stop None: Python 2 orders
\* None below every integer, Python 3 raises TypeError.
StopIsNone(py) == IF py = "py2" THEN "skip" ELSE "TypeError"

\* __getitem__ with a slice key: pull while key.stop >= len(all_records),
\* then wrap an iterator over a copy of the cached range.
getitem_slice(c, key, py) ==
    IF key.stop.none
    THEN IF StopIsNone(py) = "skip"
         THEN [c |-> c, outcome |-> "ok", reqs |-> 0,
               new |-> RowsCollection(PySlice(c.all_records, key))]
         ELSE [c |-> c, outcome |-> StopIsNone(py), reqs |-> 0,
               new |-> RowsCollection(<<>>)]
    ELSE LET p == PullWhile(c, key.stop.v, 0) IN
         IF p.raised
         THEN [c |-> p.c, outcome |-> "StopIteration", reqs |-> p.reqs,
               new |-> RowsCollection(<<>>)]
         ELSE [c |-> p.c, outcome |-> "ok", reqs |-> p.reqs,
               new |-> RowsCollection(PySlice(p.c.all_records, key))]

\* ------------------------------------------------------------------ Row
ColNames == {"a", "b"}
NameKeys == ColNames \cup {"z"}
ColKeys == (0 - (MaxCols + 1))..(MaxCols + 1)
ColValues == 1..MaxCols

\* Row.__init__ for keys and values of equal length (its assert passes).
Row(keys, values) == [keys |-> keys, values |-> values]

Rows ==
    UNION { { Row(k, v) : k \in [1..n -> ColNames], v \in [1..n -> ColValues] }
            : n \in 0..MaxCols }

\* A key of Row.__getitem__: an int or a column name.
IntKey(i) == [int |-> TRUE, i |-> i, name |-> ""]
NameKey(name) == [int |-> FALSE, i |-> 0, name |-> name]

\* Row.__len__
row_len(r) == Len(r.keys)

\* list.index(x) of Python for an x that is in the list: its first position.
PyListIndex(list, x) ==
    (CHOOSE i \in 1..Len(list) :
        list[i] = x /\ \A j \in 1..(i - 1) : list[j] # x) - 1

\* A Row.__getitem__ that takes the last column of the name, as a dict
\* built from the columns would.
row_getitem_lastmatch(r, key, checked) ==
    IF key.int
    THEN IF checked /\ ~(key.i < Len(r.keys))
         THEN [outcome |-> "AssertionError", row |-> NoRow]
         ELSE PyIndex(r.values, key.i)
    ELSE IF \E i \in 1..Len(r.keys) : r.keys[i] = key.name
         THEN [outcome |-> "ok",
               row |-> r.values[CHOOSE i \in 1..Len(r.keys) :
                          r.keys[i] = key.name
                          /\ \A j \in (i + 1)..Len(r.keys) :
                                 r.keys[j] # key.name]]
         ELSE [outcome |-> "KeyError", row |-> NoRow]

\* Row.__getitem__: an int key is asserted below len(keys) (the assert is
\* gone under python -O) and indexes values; any other key is looked up
\* in keys and indexes values at its first position, or raises KeyError.
row_getitem(r, key, checked) ==
    IF key.int
    THEN IF checked /\ ~(key.i < Len(r.keys))
         THEN [outcome |-> "AssertionError", row |-> NoRow]
         ELSE PyIndex(r.values, key.i)
    ELSE IF \E i \in 1..Len(r.keys) : r.keys[i] = key.name
         THEN [outcome |-> "ok",
               row |-> r.values[PyListIndex(r.keys, key.name) + 1]]
         ELSE [outcome |-> "KeyError", row |-> NoRow]

\* ----------------------------------------------------- Connection.query
\* What self.connection.execute(text(sql)) can raise.  KeyboardInterrupt
\* is not an Exception, so "except Exception" does not catch it.
ExecErrors == {"ProgrammingError", "OperationalError", "KeyboardInterrupt"}
IsException(e) == e # "KeyboardInterrupt"

\* Connection.query, given the error execute raises ("" for none): a caught
\* error e is called, 'raise e("SQL execution error!")', and calling an
\* exception instance raises TypeError; with no error the rows are wrapped.
query(error, rows) ==
    IF error = ""
    THEN [outcome |-> "ok", returned |-> TRUE,
          results |-> RowsCollection(rows)]
    ELSE [outcome |-> IF IsException(error) THEN "TypeError" ELSE error,
          returned |-> FALSE, results |-> RowsCollection(<<>>)]

\* ------------------------------------------------------------ the calls
NoSlice == [start |-> None, stop |-> None]

Call(op, key, slice, pre, outcome, ret, list, reqs) ==
    [op |-> op, key |-> key, slice |-> slice, pre |-> pre,
     outcome |-> outcome, row |-> ret, list |-> list, reqs |-> reqs]

\* The last two entries of a log after one more entry.
Keep2(log, e) == IF Len(log) = 2 THEN <<log[2], e>> ELSE Append(log, e)

RowCall(op, key, error, outcome, value, returned) ==
    [op |-> op, key |-> key, error |-> error, outcome |-> outcome,
     value |-> value, returned |-> returned]

NoRowCall == RowCall("init", IntKey(0), "", "ok", NoRow, FALSE)

NoIter == [st |-> "idle", counter |-> 0, yielded |-> <<>>]
NoSub == [live |-> FALSE, c |-> RowsCollection(<<>>)]

Init ==
    /\ python \in Pythons
    /\ resultSet \in ResultSets
    /\ self = RowsCollection(resultSet)
    /\ iters = [i \in IterIds |-> NoIter]
    /\ sub = NoSub
    /\ fetched = <<>>
    /\ last = Call("init", 0, NoSlice, self, "ok", NoRow, <<>>, 0)
    /\ row = Row(<<>>, <<>>)
    /\ asserts = TRUE
    /\ rlast = NoRowCall

\* A Row of any shape, on an interpreter with or without asserts.
InitRow ==
    /\ python \in Pythons
    /\ resultSet = <<>>
    /\ self = RowsCollection(resultSet)
    /\ iters = [i \in IterIds |-> NoIter]
    /\ sub = NoSub
    /\ fetched = <<>>
    /\ last = Call("init", 0, NoSlice, self, "ok", NoRow, <<>>, 0)
    /\ row \in Rows
    /\ asserts \in BOOLEAN
    /\ rlast = NoRowCall

collVars == <<python, resultSet, self, iters, sub, fetched, last>>

\* row[i]
RowGetInt ==
    \E i \in ColKeys :
        LET r == row_getitem(row, IntKey(i), asserts) IN
        /\ rlast' = RowCall("getitem", IntKey(i), "", r.outcome, r.row, FALSE)
        /\ UNCHANGED <<row, asserts, collVars>>

\* row[name]
RowGetName ==
    \E name \in NameKeys :
        LET r == row_getitem(row, NameKey(name), asserts) IN
        /\ rlast' = RowCall("getitem", NameKey(name), "", r.outcome, r.row,
                            FALSE)
        /\ UNCHANGED <<row, asserts, collVars>>

\* len(row)
RowLength ==
    /\ rlast' = RowCall("len", IntKey(0), "", "ok", row_len(row), FALSE)
    /\ UNCHANGED <<row, asserts, collVars>>

\* connection.query(sql), execute raising an error or none
Query ==
    \E error \in ExecErrors \cup {""} :
        LET r == query(error, resultSet) IN
        /\ rlast' = RowCall("query", IntKey(0), error, r.outcome, NoRow,
                            r.returned)
        /\ UNCHANGED <<row, asserts, collVars>>

\* collection.next()
PullNext ==
    LET r == next(self) IN
    /\ self' = r.c
    /\ last' = Call("next", 0, NoSlice, self,
                    IF r.raised THEN "StopIteration" ELSE "ok",
                    r.row, <<>>, r.reqs)
    /\ UNCHANGED <<row, asserts, rlast, python, resultSet, iters, sub, fetched>>

\* len(collection)
Length ==
    /\ last' = Call("len", len(self), NoSlice, self, "ok", NoRow, <<>>, 0)
    /\ UNCHANGED <<row, asserts, rlast, python, resultSet, self, iters, sub, fetched>>

\* collection.fetch_all()
FetchAll ==
    LET r == fetch_all(self, python) IN
    /\ self' = r.c
    /\ last' = Call("fetch_all", 0, NoSlice, self, r.outcome, NoRow,
                    r.list, r.reqs)
    /\ fetched' = Keep2(fetched, [outcome |-> r.outcome, list |-> r.list])
    /\ UNCHANGED <<row, asserts, rlast, python, resultSet, iters, sub>>

\* collection[key], key an integer
GetItemInt ==
    \E key \in IntKeys :
        LET r == getitem_int(self, key) IN
        /\ self' = r.c
        /\ last' = Call("getitem", key, NoSlice, self, r.outcome, r.row,
                        <<>>, r.reqs)
        /\ UNCHANGED <<row, asserts, rlast, python, resultSet, iters, sub, fetched>>

\* g = iter(collection): a new generator object, its body not yet started.
IterStart ==
    \E i \in IterIds :
        /\ iters' = [iters EXCEPT ![i] =
                        [st |-> "created", counter |-> 0, yielded |-> <<>>]]
        /\ last' = Call("iter", i, NoSlice, self, "ok", NoRow, <<>>, 0)
        /\ UNCHANGED <<row, asserts, rlast, python, resultSet, self, sub, fetched>>

\* next(g) on a generator that has not finished: run the body to its next
\* yield ("counter = 0" on the first call, "counter += 1" on the later ones).
IterNext ==
    \E i \in IterIds :
        /\ iters[i].st \in {"created", "suspended"}
        /\ LET counter == IF iters[i].st = "created" THEN 0
                          ELSE iters[i].counter + 1
               s == GenStep(self, counter)
           IN
           /\ self' = s.c
           /\ iters' = [iters EXCEPT ![i] =
                 IF s.raised
                 THEN [st |-> "finished", counter |-> counter,
                       yielded |-> iters[i].yielded]
                 ELSE [st |-> "suspended", counter |-> counter,
                       yielded |-> Append(iters[i].yielded, s.row)]]
           /\ last' = Call("iter_next", i, NoSlice, self,
                           IF s.raised THEN GenExit(python) ELSE "ok",
                           s.row, <<>>, s.reqs)
        /\ UNCHANGED <<row, asserts, rlast, python, resultSet, sub, fetched>>

\* next(g) on a generator that has finished: StopIteration, nothing runs.
IterNextFinished ==
    \E i \in IterIds :
        /\ iters[i].st = "finished"
        /\ last' = Call("iter_next", i, NoSlice, self, "StopIteration",
                        NoRow, <<>>, 0)
        /\ UNCHANGED <<row, asserts, rlast, python, resultSet, self, iters, sub, fetched>>

\* collection[start:stop]; the caller keeps the collection it returns in
\* sub, or only looks at it (last.list is the producer handed to it).
SliceCall(keep, starts) ==
    \E start \in starts,
       stop \in {None} \cup {Bound(v) : v \in StopKeys} :
        LET key == [start |-> start, stop |-> stop]
            r == getitem_slice(self, key, python)
        IN
        /\ self' = r.c
        /\ sub' = IF keep /\ r.outcome = "ok"
                  THEN [live |-> TRUE, c |-> r.new]
                  ELSE sub
        /\ last' = Call("slice", 0, key, self, r.outcome, NoRow,
                        IF r.outcome = "ok" THEN r.new.records ELSE <<>>,
                        r.reqs)
        /\ UNCHANGED <<row, asserts, rlast, python, resultSet, iters, fetched>>

\* collection[:stop], the result dropped
GetItemSlice == SliceCall(FALSE, {None})

\* sub = collection[start:stop]
GetItemSliceKeep ==
    SliceCall(TRUE, {None} \cup {Bound(v) : v \in StartKeys})

\* A sub.next() on a sub-collection that shares the producer of its parent.
SubNext_shared ==
    /\ sub.live
    /\ LET r == next(sub.c) IN
       /\ sub' = [sub EXCEPT !.c = r.c]
       /\ self' = next(self).c
       /\ last' = Call("sub_next", 0, NoSlice, self,
                       IF r.raised THEN "StopIteration" ELSE "ok",
                       r.row, <<>>, r.reqs)
    /\ UNCHANGED <<row, asserts, rlast, python, resultSet, iters, fetched>>

\* sub.next() on the collection a slice returned
SubNext ==
    /\ sub.live
    /\ LET r == next(sub.c) IN
       /\ sub' = [sub EXCEPT !.c = r.c]
       /\ last' = Call("sub_next", 0, NoSlice, self,
                       IF r.raised THEN "StopIteration" ELSE "ok",
                       r.row, <<>>, r.reqs)
    /\ UNCHANGED <<row, asserts, rlast, python, resultSet, self, iters, fetched>>

\* sub.fetch_all() on the collection a slice returned
SubFetchAll ==
    /\ sub.live
    /\ LET r == fetch_all(sub.c, python) IN
       /\ sub' = [sub EXCEPT !.c = r.c]
       /\ last' = Call("sub_fetch_all", 0, NoSlice, self, r.outcome, NoRow,
                       r.list, r.reqs)
    /\ UNCHANGED <<row, asserts, rlast, python, resultSet, self, iters, fetched>>

\* One collection, read directly and through generators of __iter__.
Next ==
    \/ PullNext
    \/ Length
    \/ FetchAll
    \/ GetItemInt
    \/ GetItemSlice
    \/ IterStart
    \/ IterNext
    \/ IterNextFinished

Spec == Init /\ [][Next]_vars

\* One collection and the sub-collection its last slice returned.
NextSlice ==
    \/ PullNext
    \/ Length
    \/ FetchAll
    \/ GetItemInt
    \/ GetItemSliceKeep
    \/ SubNext
    \/ SubFetchAll

SpecSlice == Init /\ [][NextSlice]_vars

\* One Row read by position and by name, and the query that builds rows.
NextRow ==
    \/ RowGetInt
    \/ RowGetName
    \/ RowLength
    \/ Query

SpecRow == InitRow /\ [][NextRow]_vars

\* ------------------------------------------------------------ properties

\* C1: every fetch_all() call, whatever was pulled before it, returns
\* normally, and what it returns is the producer's rows in producer order.
C1_FetchAllReturnsEveryRow ==
    last.op = "fetch_all" =>
        /\ last.outcome = "ok"
        /\ last.list = resultSet

\* C2: a step of an iteration that yields no row, because pull_next found
\* the producer at its end, ends the iteration normally: its consumer sees
\* the end of the sequence (StopIteration) and no error.
C2_IterationEndsNormally ==
    (last.op = "iter_next" /\ last.row = NoRow) =>
        last.outcome = "StopIteration"

\* C3: the rows the source has delivered are exactly the rows in the cache,
\* each once and never more than N of them; reading a row that is already
\* cached, by index or by an iteration, asks the source for nothing.
C3_PulledOncePerRow ==
    /\ Len(resultSet) - Len(self.records) = Len(self.all_records)
    /\ Len(self.all_records) <= Len(resultSet)
    /\ \A i, j \in 1..Len(self.all_records) :
           i # j => self.all_records[i] # self.all_records[j]
    /\ (last.op = "getitem" /\ last.key >= 0
           /\ last.key < Len(last.pre.all_records)) =>
           (last.reqs = 0 /\ self = last.pre)
    /\ (last.op = "iter_next" /\ last.outcome = "ok"
           /\ iters[last.key].counter < Len(last.pre.all_records)) =>
           (last.reqs = 0 /\ self = last.pre)

\* A row read a second time: an index call on a row that was cached already
\* and that a generator has yielded too.
C3_Witness ==
    /\ last.op = "getitem" /\ last.outcome = "ok"
    /\ last.key >= 1 /\ last.key < Len(last.pre.all_records)
    /\ \E i \in IterIds : Len(iters[i].yielded) > last.key

\* C4: the cache is always a prefix of the result set in producer order,
\* and every step only appends to it: it never gets shorter and an entry
\* never changes or moves.
C4_CacheIsAppendOnlyPrefix ==
    /\ [](/\ Len(self.all_records) <= Len(resultSet)
          /\ \A i \in 1..Len(self.all_records) :
                 self.all_records[i] = resultSet[i])
    /\ [][/\ Len(self.all_records') >= Len(self.all_records)
          /\ \A i \in 1..Len(self.all_records) :
                 self.all_records'[i] = self.all_records[i]]_vars

\* The cache has grown to a proper prefix of two rows or more.
C4_Witness ==
    /\ Len(self.all_records) >= 2
    /\ Len(self.all_records) < Len(resultSet)
    /\ last.op = "next" /\ last.outcome = "ok"

\* C5: a call made when the collection is exhausted (pending false) finds
\* the whole result set in the cache and asks the source for nothing;
\* pull_next then fails with StopIteration.
C5_NoPullOnceExhausted ==
    (~last.pre.pending
        /\ last.op \in {"next", "iter_next", "fetch_all", "getitem", "slice"})
    =>  /\ last.pre.all_records = resultSet
        /\ last.reqs = 0
        /\ (last.op = "next" => last.outcome = "StopIteration")

\* C6: a fetch_all() that follows an earlier fetch_all() returns normally
\* the same sequence as the earlier one did, and leaves the cache, the
\* pending flag and the producer as they were.
C6_FetchAllIdempotent ==
    (last.op = "fetch_all" /\ Len(fetched) = 2) =>
        /\ fetched[1].outcome = "ok"
        /\ fetched[2].outcome = "ok"
        /\ fetched[2].list = fetched[1].list
        /\ self = last.pre

\* C7: the collection starts pending; pending is cleared only by a call
\* in which one request to the producer, made when it had no row left,
\* delivered nothing; once cleared it is never set again.
C7_ExhaustedIsPermanent ==
    /\ self.pending
    /\ [][/\ ~self.pending => ~self'.pending
          /\ (self.pending /\ ~self'.pending) =>
                 /\ self'.records = <<>>
                 /\ last'.reqs = Len(self'.all_records)
                                     - Len(self.all_records) + 1]_vars

\* A call on an exhausted collection that succeeds and leaves it exhausted.
C7_Witness ==
    /\ ~self.pending /\ ~last.pre.pending
    /\ last.op \in {"getitem", "slice", "len"} /\ last.outcome = "ok"

\* C8: what a generator has yielded is always the first rows of the result
\* set, in order, one per step; a generator that has ended has yielded all
\* of them.  A step at a cached position leaves the producer alone, a step
\* past the cache pulls exactly the row at that position.  So fetch_all on
\* a collection with k rows cached, when it returns, returns the whole
\* result set having pulled the N - k rows that were missing.
C8_ReplayThenResume ==
    /\ \A i \in IterIds :
           LET y == iters[i].yielded IN
           /\ Len(y) <= Len(resultSet)
           /\ \A k \in 1..Len(y) : y[k] = resultSet[k]
           /\ iters[i].st = "suspended" => Len(y) = iters[i].counter + 1
           /\ iters[i].st = "finished" => y = resultSet
    /\ (last.op = "iter_next" /\ last.outcome = "ok") =>
           LET n == iters[last.key].counter
               k == Len(last.pre.all_records)
           IN  /\ last.row = resultSet[n + 1]
               /\ n < k => (last.reqs = 0 /\ self = last.pre)
               /\ n >= k => (last.reqs = 1 /\ Len(self.all_records) = n + 1)
    /\ (last.op = "fetch_all" /\ last.outcome = "ok") =>
           /\ last.list = resultSet
           /\ self.all_records = resultSet
           /\ last.reqs = Len(resultSet) - Len(last.pre.all_records) + 1

\* A full iteration from the start over a collection of which some rows,
\* not all, were cached.
C8_Witness ==
    /\ last.op = "fetch_all" /\ last.outcome = "ok"
    /\ Len(last.pre.all_records) >= 1
    /\ Len(last.pre.all_records) < Len(resultSet)
    /\ last.list = resultSet

\* C9: under any interleaving, what each generator has yielded is the first
\* rows of the one shared cache, so two generators agree wherever both have
\* been; the cache is the rows the producer has delivered, each once.
C9_IterationsShareOneCache ==
    /\ \A i \in IterIds :
           /\ Len(iters[i].yielded) <= Len(self.all_records)
           /\ iters[i].yielded
                 = SubSeq(self.all_records, 1, Len(iters[i].yielded))
    /\ \A i, j \in IterIds :
           \A k \in 1..Len(iters[i].yielded) :
               k <= Len(iters[j].yielded) =>
                   iters[i].yielded[k] = iters[j].yielded[k]
    /\ self.all_records
          = SubSeq(resultSet, 1, Len(resultSet) - Len(self.records))

\* Two generators in flight at different positions, the one ahead having
\* just pulled a new row into the cache the other replays.
C9_Witness ==
    /\ iters[1].st = "suspended" /\ iters[2].st = "suspended"
    /\ last.op = "iter_next" /\ last.key = 2 /\ last.reqs = 1
    /\ last.outcome = "ok"
    /\ iters[1].counter >= 1
    /\ iters[2].counter > iters[1].counter

\* C10: collection[j] for 0 <= j < N returns the j-th row of the producer,
\* which is the row at j of every list fetch_all has returned; it pulls
\* exactly the missing rows up to j, so max(c, j+1) rows are cached after
\* it, and it leaves a pending collection pending.
C10_IndexPullsOnlyAsNeeded ==
    (last.op = "getitem" /\ last.key >= 0 /\ last.key < Len(resultSet)) =>
        LET c == Len(last.pre.all_records)
            m == IF c > last.key + 1 THEN c ELSE last.key + 1
        IN  /\ last.outcome = "ok"
            /\ last.row = resultSet[last.key + 1]
            /\ \A f \in 1..Len(fetched) :
                   fetched[f].outcome = "ok" =>
                       last.row = fetched[f].list[last.key + 1]
            /\ Len(self.all_records) = m
            /\ last.reqs = m - c
            /\ last.pre.pending => self.pending

\* An index call that had to pull, and stopped short of the last row.
C10_Witness ==
    /\ last.op = "getitem" /\ last.outcome = "ok"
    /\ last.key >= 1
    /\ last.key >= Len(last.pre.all_records)
    /\ last.key + 1 < Len(resultSet)
    /\ self.pending

\* C11: len(collection) is the number of rows pulled so far, which is the
\* number the producer has delivered and is N only when all are pulled; the
\* call asks the producer for nothing and leaves the collection as it was.
C11_LengthIsCacheSize ==
    last.op = "len" =>
        /\ last.key = Len(self.all_records)
        /\ last.key = Len(resultSet) - Len(self.records)
        /\ (last.key = Len(resultSet)) = (self.records = <<>>)
        /\ last.reqs = 0
        /\ self = last.pre

\* len() of a collection of which some rows, not all, have been pulled.
C11_Witness ==
    /\ last.op = "len"
    /\ last.key >= 1
    /\ last.key < Len(resultSet)
    /\ self.pending

\* C12: collection[j] with j >= N fails with an index error, not with the
\* StopIteration of pull_next, and leaves the collection exhausted with all
\* N rows cached.
C12_IndexPastEndIsIndexError ==
    (last.op = "getitem" /\ last.key >= Len(resultSet)) =>
        /\ last.outcome = "IndexError"
        /\ ~self.pending
        /\ self.all_records = resultSet

\* C13: collection[a:b] with 0 <= a <= b <= N, b = N included, succeeds,
\* and the collection it returns is built on rows a..b-1 of the result set
\* in producer order.
C13_BoundedSliceReturnsRange ==
    (/\ last.op = "slice"
     /\ ~last.slice.start.none /\ ~last.slice.stop.none
     /\ 0 <= last.slice.start.v
     /\ last.slice.start.v <= last.slice.stop.v
     /\ last.slice.stop.v <= Len(resultSet))
    =>  /\ last.outcome = "ok"
        /\ last.list = SubSeq(resultSet, last.slice.start.v + 1,
                              last.slice.stop.v)

\* C14: a call on the sub-collection leaves the parent (cache, pending,
\* producer) as it was; a call on the parent other than a new slice leaves
\* the sub-collection as it was; and whatever is called, short of a new
\* slice, the rows of the sub-collection (those it has cached followed by
\* those it has still to pull) stay the rows of the snapshot.
C14_SubCollectionIsIndependent ==
    [][/\ last'.op \in {"sub_next", "sub_fetch_all"} => self' = self
       /\ last'.op \in {"next", "len", "fetch_all", "getitem"} => sub' = sub
       /\ (sub.live /\ (last'.op # "slice" \/ last'.outcome # "ok")) =>
              /\ sub'.live
              /\ sub'.c.all_records \o sub'.c.records
                    = sub.c.all_records \o sub.c.records]_vars

\* The parent pulls a new row after the sub-collection has been drained,
\* and is itself still pending.
C14_Witness ==
    /\ sub.live /\ ~sub.c.pending
    /\ Len(sub.c.all_records) >= 1
    /\ last.op = "next" /\ last.outcome = "ok"
    /\ self.pending
    /\ Len(self.all_records) > Len(last.pre.all_records)

\* C15: a slice with an open upper end fails, and the failed call asks the
\* producer for nothing and leaves the collection as it was.
C15_OpenSliceFails ==
    (last.op = "slice" /\ last.slice.stop.none) =>
        /\ last.outcome # "ok"
        /\ last.reqs = 0
        /\ self = last.pre

\* C18: collection[a:b] with 0 <= b <= N pulls only until b rows are
\* cached: max(c, b) rows are cached after it when c were before.
C18_SliceStopsAtUpperBound ==
    (/\ last.op = "slice" /\ ~last.slice.stop.none
     /\ 0 <= last.slice.stop.v
     /\ last.slice.stop.v <= Len(resultSet))
    =>  Len(self.all_records)
           = IF Len(last.pre.all_records) > last.slice.stop.v
             THEN Len(last.pre.all_records) ELSE last.slice.stop.v

\* C19: a generator suspended at a yield has its counter below the cache
\* length, so the counter it resumes with is at most the cache length, and
\* a generator that has ended stopped at the cache length.  A step that
\* falls through to self.next() does so with its counter equal to the cache
\* length, and the row it pulls is cached and yielded at that position.
C19_CounterWithinCache ==
    /\ \A i \in IterIds :
           /\ iters[i].st = "suspended" =>
                  iters[i].counter + 1 <= Len(self.all_records)
           /\ iters[i].st = "finished" =>
                  iters[i].counter = Len(self.all_records)
    /\ (last.op = "iter_next" /\ last.reqs = 1) =>
           /\ iters[last.key].counter = Len(last.pre.all_records)
           /\ last.outcome = "ok" =>
                  /\ self.all_records[iters[last.key].counter + 1] = last.row
                  /\ resultSet[iters[last.key].counter + 1] = last.row

\* A generator pulls a row at its own position while another generator is
\* suspended behind it.
C19_Witness ==
    /\ last.op = "iter_next" /\ last.reqs = 1 /\ last.outcome = "ok"
    /\ iters[last.key].counter >= 1
    /\ \E j \in IterIds :
           /\ j # last.key
           /\ iters[j].st = "suspended"
           /\ iters[j].counter < iters[last.key].counter

\* C20: collection[-m], m >= 1, asks the producer for nothing and leaves
\* the collection as it was; it returns the m-th row from the end of the
\* cache as it is at the call when the cache has m rows, and fails with
\* IndexError when it has fewer.
C20_NegativeIndexReadsCacheOnly ==
    (last.op = "getitem" /\ last.key < 0) =>
        LET n == Len(last.pre.all_records) IN
        /\ last.reqs = 0
        /\ self = last.pre
        /\ n + last.key >= 0 =>
               /\ last.outcome = "ok"
               /\ last.row = last.pre.all_records[n + last.key + 1]
               /\ last.row = resultSet[n + last.key + 1]
        /\ n + last.key < 0 =>
               /\ last.outcome = "IndexError"
               /\ last.row = NoRow

\* collection[-1] on a pending collection with some rows cached: the row
\* returned is the last one cached, not the last one of the result set.
C20_Witness ==
    /\ last.op = "getitem" /\ last.key = 0 - 1 /\ last.outcome = "ok"
    /\ self.pending
    /\ Len(self.all_records) >= 1
    /\ Len(self.all_records) < Len(resultSet)
    /\ last.row = resultSet[Len(self.all_records)]
    /\ last.row # resultSet[Len(resultSet)]

\* C16: for a Row with as many values as column names, row[i] is values[i]
\* for 0 <= i < len(row); row[name] is the value at the first column of
\* that name, so with unique names row[keys[i]] is values[i]; an int key
\* >= len(row) fails the bounds check; a name that is no column's raises
\* KeyError.
C16_RowGetByIndexAndName ==
    /\ Len(row.keys) = Len(row.values)
    /\ (rlast.op = "getitem" /\ rlast.key.int /\ rlast.key.i >= 0) =>
           IF rlast.key.i < row_len(row)
           THEN /\ rlast.outcome = "ok"
                /\ rlast.value = row.values[rlast.key.i + 1]
           ELSE /\ rlast.outcome \in {"AssertionError", "IndexError"}
                /\ rlast.value = NoRow
    /\ (rlast.op = "getitem" /\ ~rlast.key.int) =>
           LET at == {i \in 1..Len(row.keys) : row.keys[i] = rlast.key.name}
           IN  IF at = {}
               THEN rlast.outcome = "KeyError"
               ELSE /\ rlast.outcome = "ok"
                    /\ \E i \in at :
                           /\ \A j \in at : i <= j
                           /\ rlast.value = row.values[i]
                    /\ Cardinality(at) = 1 =>
                           \A i \in at : rlast.value = row.values[i]

\* A lookup by a name that two columns carry with different values: the
\* first column's value is returned.
C16_Witness ==
    /\ rlast.op = "getitem" /\ ~rlast.key.int /\ rlast.outcome = "ok"
    /\ Len(row.keys) >= 2
    /\ row.keys[1] = rlast.key.name /\ row.keys[2] = rlast.key.name
    /\ row.values[1] # row.values[2]
    /\ rlast.value = row.values[1]

\* C17: when execute fails, the caller of query() gets the error execute
\* raised, and no RowsCollection.
C17_QueryPropagatesUnchanged ==
    (rlast.op = "query" /\ rlast.error # "") =>
        /\ rlast.outcome = rlast.error
        /\ ~rlast.returned
====
